---- MODULE Spec2Model ----
(***************************************************************************)
(* A model of the two notebook helpers of utils-databricks:                *)
(*   custom_utils/quality/quality.py        (DataQualityManager)           *)
(*   custom_utils/dp_storage/merge_management.py  (manage_data_merge)      *)
(* The Spark/Delta engine is modelled by what its operations compute on    *)
(* small DataFrames (bags of rows) and on a versioned table.               *)
(***************************************************************************)
EXTENDS Integers, Sequences, FiniteSets, Bags, TLC

(***************************************************************************)
(* Bounds of the model.                                                    *)
(***************************************************************************)
\* Largest number of rows of an input DataFrame.
MaxRows == 2
\* Largest number of commits other writers make to the Delta table in a run.
MaxOtherCommits == 2
\* Largest table version a run may start from.
MaxStartVersion == 2
\* Largest number of blocks describe_available_checks logs in a session.
MaxDescribed == 1

(***************************************************************************)
(* Values.  A Python value is a tagged record; SQL NULL is a value of its  *)
(* own, below every number used in a column.                               *)
(***************************************************************************)
Null == -1

None == [t |-> "none"]
PyList(s) == [t |-> "list", v |-> s]
PyStr(s) == [t |-> "str", v |-> s]
PyDict(s) == [t |-> "dict", v |-> s]

\* Python truth value of an argument: None, '', [] and {} are false; a
\* DataFrame object defines neither __bool__ nor __len__, so it is true.
Truthy(x) ==
    CASE x.t = "none" -> FALSE
      [] x.t = "list" -> Len(x.v) > 0
      [] x.t = "dict" -> Len(x.v) > 0
      [] x.t = "str" -> x.v # ""
      [] x.t = "df" -> TRUE

(***************************************************************************)
(* DataFrames: a schema (set of column names) and a bag of rows.           *)
(***************************************************************************)
AllColumns == {"input_file_name", "id", "val"}
FileNames == {1, 2}
Ids == {1, 2}
Vals == {Null, 1, 3}

RowSet == {[input_file_name |-> f, id |-> i, val |-> v] :
              f \in FileNames, i \in Ids, v \in Vals}

RECURSIVE SeqToBag(_)
SeqToBag(s) ==
    IF s = <<>> THEN EmptyBag ELSE SetToBag({Head(s)}) (+) SeqToBag(Tail(s))

RowBags == {SeqToBag(s) : s \in UNION {[1..n -> RowSet] : n \in 0..MaxRows}}

DataFrame(cols, rows) == [t |-> "df", cols |-> cols, rows |-> rows]

InputFrames == {DataFrame(AllColumns, b) : b \in RowBags}

RECURSIVE SumOver(_, _)
SumOver(b, S) ==
    IF S = {} THEN 0
    ELSE LET r == CHOOSE x \in S : TRUE IN b[r] + SumOver(b, S \ {r})

\* df.count()
Count(df) == SumOver(df.rows, DOMAIN df.rows)

\* df.filter(condition), given the rows on which the condition evaluates to true.
Filter(df, matching) ==
    DataFrame(df.cols, [r \in DOMAIN df.rows \cap matching |-> df.rows[r]])

\* The values of the columns cols (a sequence) in row r.
KeyOf(r, cols) == [i \in 1..Len(cols) |-> r[cols[i]]]

Range(s) == {s[i] : i \in 1..Len(s)}

\* df.drop(*cols): dropping a column the frame does not have is a no-op.
Restrict(r, keep) == [c \in keep |-> r[c]]
Drop(df, cols) ==
    LET keep == df.cols \ Range(cols)
        img == {Restrict(r, keep) : r \in DOMAIN df.rows}
    IN DataFrame(keep,
         [y \in img |->
            SumOver(df.rows, {r \in DOMAIN df.rows : Restrict(r, keep) = y})])

\* df.withColumn(name, lit(v))
WithColumn(df, name, v) ==
    LET ext(r) == [c \in df.cols \cup {name} |-> IF c = name THEN v ELSE r[c]]
    IN DataFrame(df.cols \cup {name},
         [y \in {ext(r) : r \in DOMAIN df.rows} |->
            SumOver(df.rows, {r \in DOMAIN df.rows : ext(r) = y})])

(***************************************************************************)
(* Engine operations used by the passes.                                   *)
(***************************************************************************)
\* groupBy(cols).count().filter(count > 1).count(), and the SQL
\* GROUP BY cols HAVING COUNT(*) > 1: the number of groups of more than one row.
DuplicateGroups(df, cols) ==
    Cardinality({k \in {KeyOf(r, cols) : r \in DOMAIN df.rows} :
        SumOver(df.rows, {r \in DOMAIN df.rows : KeyOf(r, cols) = k}) > 1})

\* x sorts before y under "ORDER BY c DESC" (Spark puts NULL last when descending).
DescBefore(x, y) == x # Null /\ (y = Null \/ x > y)

RECURSIVE SortsBefore(_, _, _)
SortsBefore(a, b, ord) ==
    IF ord = <<>> THEN FALSE
    ELSE IF a[Head(ord)] = b[Head(ord)] THEN SortsBefore(a, b, Tail(ord))
    ELSE DescBefore(a[Head(ord)], b[Head(ord)])

\* row_number() over (partition by part order by ord desc) = 1: one row of each
\* partition, none of whose partition sorts before it.  Rows that tie are
\* numbered in an order the engine chooses, so the result is a set of frames.
RowNumberOne(df, part, ord) ==
    LET rows == DOMAIN df.rows
        keys == {Restrict(r, part) : r \in rows}
        first(k) == {r \in rows : /\ Restrict(r, part) = k
                                  /\ \A q \in rows : Restrict(q, part) = k
                                                       => ~SortsBefore(q, r, ord)}
        picks == {f \in [keys -> rows] : \A k \in keys : f[k] \in first(k)}
    IN {DataFrame(df.cols, SetToBag({f[k] : k \in keys})) : f \in picks}

\* df.join(ref, df[c] == ref[c], "left_anti").count(): NULL matches nothing.
Unmatched(df, ref, c) ==
    Count(Filter(df, {r \in DOMAIN df.rows : ~\E s \in DOMAIN ref.rows :
                                   r[c] # Null /\ s[c] # Null /\ r[c] = s[c]}))

(***************************************************************************)
(* Exceptions and the logger.  A message is the sequence of its parts:     *)
(* f"prefix: {e}" is <<prefix>> \o e.msg.                                  *)
(***************************************************************************)
NoExc == [type |-> "none", msg |-> <<>>]
Exc(type, msg) == [type |-> type, msg |-> msg]

\* What the manager hands to its logger: a block (ev is its header) or a
\* message (ev is its level), with the parts of its text.
LogEvent(ev, detail) == [ev |-> ev, detail |-> detail]

\* _log_message(message, level)
LogMessage(message, level) == LogEvent(level, message)

\* What a pass hands back: the exception it raised (NoExc when it returned), the
\* blocks and messages it passed to _log_block and _log_message, in order, the
\* frame it returned and the session's views.
Returned(logged, df, views) == [exc |-> NoExc, logged |-> logged, df |-> df, views |-> views]
Raised(e, logged, df, views) == [exc |-> e, logged |-> logged, df |-> df, views |-> views]

\* _raise_error(message) called after `logged`.
RaiseError(msg, logged, df, views) ==
    Raised(Exc("RuntimeError", msg), Append(logged, LogMessage(msg, "error")), df, views)

\* isinstance(x, str) -> [x]
AsList(x) == IF x.t = "str" THEN <<x.v>> ELSE x.v

\* The engine rejects a query that names a column the frame does not have.
Missing(df, cols) == ~(cols \subseteq df.cols)

ParseError == Exc("ParseException", <<"ParseException">>)
AnalysisError == Exc("AnalysisException", <<"AnalysisException">>)

(***************************************************************************)
(* DataQualityManager: the passes.                                         *)
(***************************************************************************)
\* The columns _handle_multiple_files partitions by.
PartitionColumns(key_columns) == {"input_file_name"} \cup Range(AsList(key_columns))

\* The columns it orders by on the DataFrame path.
OrderColumns(order_by) ==
    IF ~Truthy(order_by) THEN <<"input_file_name">> ELSE AsList(order_by)

\* The columns of the SQL path's ORDER BY clause.
OrderByClause(order_by) ==
    SelectSeq(<<"input_file_name">> \o OrderColumns(order_by),
              LAMBDA c : c # "input_file_name")

\* _handle_multiple_files: the set of results the engine can return.
\* parseIsAnalysis: whether the installed pyspark derives ParseException from
\* AnalysisException (it does from 3.4 on).
HandleMultipleFiles(views, df, key_columns, order_by, use_sql, parseIsAnalysis) ==
    LET part == PartitionColumns(key_columns)
        ord == OrderColumns(order_by)
        clause == OrderByClause(order_by)
        block == LogEvent("Handling Multiple Files", ord)
        query == LogMessage(<<"The following SQL query is used to handle multiple files">>,
                            "info")
        applied == LogMessage(<<"DataFrame operation used: Applied row_number()">>,
                              "info")
        completed == LogMessage(<<"Handling multiple files completed successfully.">>,
                                "info")
        fail(e, logged, vw) ==
            RaiseError(<<"Failed to handle multiple files">> \o e.msg, logged, df, vw)
    IN IF use_sql
       THEN LET v1 == [views EXCEPT !["temp_original_data"] = df]
            IN IF clause = <<>>
               THEN IF parseIsAnalysis THEN {fail(ParseError, <<block, query>>, v1)}
                    ELSE {Raised(ParseError, <<block, query>>, df, v1)}
               ELSE IF Missing(df, part \cup Range(clause))
               THEN {fail(AnalysisError, <<block, query>>, v1)}
               ELSE {Returned(<<block, query, completed>>, r,
                              [v1 EXCEPT !["temp_recent_data"] =
                                            WithColumn(r, "rnr", 1)]) :
                        r \in RowNumberOne(df, part, clause)}
       ELSE IF Missing(df, part \cup Range(ord))
            THEN {fail(AnalysisError, <<block>>, views)}
            ELSE {Returned(<<block, applied, completed>>, r, views) :
                     r \in RowNumberOne(df, part, ord)}

\* _check_for_duplicates
CheckForDuplicates(views, df, key_columns, use_sql) ==
    LET keys == AsList(key_columns)
        vw == IF use_sql
              THEN [views EXCEPT !["temp_view_check_duplicates"] = df]
              ELSE views
        block == LogEvent("Duplicate Check", keys)
        used == IF use_sql
                THEN LogMessage(<<"The following SQL query is used to check for duplicates">>,
                                "info")
                ELSE LogMessage(<<"DataFrame operation used: GroupBy">>, "info")
        passed == LogMessage(<<"Duplicate check passed: No duplicates found.">>, "info")
        wrap(e, logged) ==
            RaiseError(<<"Failed to check for duplicates">> \o e.msg, logged, df, vw)
    IN IF use_sql /\ keys = <<>> THEN wrap(ParseError, <<block, used>>)
       ELSE IF Missing(df, Range(keys))
       THEN wrap(AnalysisError, IF use_sql THEN <<block, used>> ELSE <<block>>)
       ELSE IF DuplicateGroups(df, keys) > 0
       THEN wrap(Exc("RuntimeError", <<"Duplicate check failed">>),
                 <<block, used, LogMessage(<<"Duplicate check failed">>, "error")>>)
       ELSE Returned(<<block, used, passed>>, df, vw)

\* The first position of a list of flags that is true, 0 when none is.
FirstTrue(flags) ==
    IF \E i \in 1..Len(flags) : flags[i]
    THEN CHOOSE i \in 1..Len(flags) : flags[i] /\ \A j \in 1..(i - 1) : ~flags[j]
    ELSE 0

\* What the first n items of a per-column check log when each of them passes:
\* the operation used and the result, item by item.
PassedItems(msgs, n) ==
    [j \in 1..(2 * n) |->
        IF j % 2 = 1 THEN LogMessage(msgs[(j + 1) \div 2].used, "info")
        ELSE LogMessage(msgs[j \div 2].passed, "info")]

\* CheckEach with the threshold off by one: a single violating row passes.
CheckEachAboveOne(views, df, block, cols, counts, msgs) ==
    LET i == FirstTrue([k \in 1..Len(cols) |-> Missing(df, cols[k]) \/ counts[k] > 1])
    IN IF i = 0 THEN Returned(<<block>> \o PassedItems(msgs, Len(cols)), df, views)
       ELSE IF Missing(df, cols[i])
       THEN RaiseError(msgs[i].wrapped \o AnalysisError.msg,
                       <<block>> \o PassedItems(msgs, i - 1), df, views)
       ELSE RaiseError(msgs[i].wrapped \o msgs[i].failed,
                       <<block>> \o PassedItems(msgs, i - 1)
                          \o <<LogMessage(msgs[i].used, "info"),
                               LogMessage(msgs[i].failed, "error")>>,
                       df, views)

\* The shape shared by the per-column checks: the block, then each item in
\* turn, inside its own try block, with the columns it names (cols) and the
\* rows the engine counts for it (counts); a count above 0 raises, and so does
\* an engine error.  msgs[k] holds the messages of item k: the operation used,
\* the item passing, the item failing, and the wrapper of the except clause.
CheckEach(views, df, block, cols, counts, msgs) ==
    LET i == FirstTrue([k \in 1..Len(cols) |-> Missing(df, cols[k]) \/ counts[k] > 0])
    IN IF i = 0 THEN Returned(<<block>> \o PassedItems(msgs, Len(cols)), df, views)
       ELSE IF Missing(df, cols[i])
       THEN RaiseError(msgs[i].wrapped \o AnalysisError.msg,
                       <<block>> \o PassedItems(msgs, i - 1), df, views)
       ELSE RaiseError(msgs[i].wrapped \o msgs[i].failed,
                       <<block>> \o PassedItems(msgs, i - 1)
                          \o <<LogMessage(msgs[i].used, "info"),
                               LogMessage(msgs[i].failed, "error")>>,
                       df, views)

\* _check_for_nulls
NullCount(df, col) == Count(Filter(df, {r \in DOMAIN df.rows : r[col] = Null}))
CheckForNulls(views, df, critical_columns) ==
    CheckEach(views, df,
              LogEvent("Null Values Check", critical_columns.v),
              [k \in 1..Len(critical_columns.v) |-> {critical_columns.v[k]}],
              [k \in 1..Len(critical_columns.v) |->
                 IF Missing(df, {critical_columns.v[k]}) THEN 0
                 ELSE NullCount(df, critical_columns.v[k])],
              [k \in 1..Len(critical_columns.v) |->
                 [used |-> <<"DataFrame operation used: isNull", critical_columns.v[k]>>,
                  passed |-> <<"Column has no missing values", critical_columns.v[k]>>,
                  failed |-> <<"Null values check failed", critical_columns.v[k]>>,
                  wrapped |-> <<"Failed to check for null values in column",
                                critical_columns.v[k]>>]])

\* OutOfRangeCount with the bounds of the range excluded from it.
OutOfRangeCountExclusive(df, col, min_val, max_val) ==
    Count(Filter(df, {r \in DOMAIN df.rows :
                        r[col] # Null /\ (r[col] <= min_val \/ r[col] >= max_val)}))

\* _check_value_ranges: an item is <<column, min, max>>.
OutOfRangeCount(df, col, min_val, max_val) ==
    Count(Filter(df, {r \in DOMAIN df.rows :
                        r[col] # Null /\ (r[col] < min_val \/ r[col] > max_val)}))
CheckValueRanges(views, df, column_ranges) ==
    CheckEach(views, df,
              LogEvent("Value Range Check",
                       [k \in 1..Len(column_ranges.v) |-> column_ranges.v[k][1]]),
              [k \in 1..Len(column_ranges.v) |-> {column_ranges.v[k][1]}],
              [k \in 1..Len(column_ranges.v) |->
                 IF Missing(df, {column_ranges.v[k][1]}) THEN 0
                 ELSE OutOfRangeCount(df, column_ranges.v[k][1],
                                      column_ranges.v[k][2], column_ranges.v[k][3])],
              [k \in 1..Len(column_ranges.v) |->
                 [used |-> <<"DataFrame operation used: below min or above max",
                             column_ranges.v[k][1]>>,
                  passed |-> <<"Column values are within the specified range",
                               column_ranges.v[k][1]>>,
                  failed |-> <<"Value range check failed", column_ranges.v[k][1]>>,
                  wrapped |-> <<"Failed to check value ranges for column",
                                column_ranges.v[k][1]>>]])

\* _check_referential_integrity
CheckReferentialIntegrity(views, df, reference_df, join_column) ==
    LET c == join_column.v
        block == LogEvent("Referential Integrity Check", <<c>>)
        used == LogMessage(<<"DataFrame operation used: left_anti join", c>>, "info")
        passed == LogMessage(<<"Referential integrity check passed for column", c>>,
                             "info")
        failed == <<"Referential integrity check failed", c>>
        wrapped == <<"Failed to check referential integrity for column", c>>
    IN IF Missing(df, {c}) \/ Missing(reference_df, {c})
       THEN RaiseError(wrapped \o AnalysisError.msg, <<block>>, df, views)
       ELSE IF Unmatched(df, reference_df, c) > 0
       THEN RaiseError(wrapped \o failed,
                       <<block, used, LogMessage(failed, "error")>>, df, views)
       ELSE Returned(<<block, used, passed>>, df, views)

\* _check_consistency_between_fields: an item is <<col1, col2>>.
InconsistencyCount(df, col1, col2) ==
    Count(Filter(df, {r \in DOMAIN df.rows :
                        r[col1] # Null /\ r[col2] # Null /\ r[col1] > r[col2]}))
CheckConsistencyBetweenFields(views, df, consistency_pairs) ==
    CheckEach(views, df,
              LogEvent("Field Consistency Check",
                       [k \in 1..Len(consistency_pairs.v) |-> consistency_pairs.v[k][1]]),
              [k \in 1..Len(consistency_pairs.v) |->
                 {consistency_pairs.v[k][1], consistency_pairs.v[k][2]}],
              [k \in 1..Len(consistency_pairs.v) |->
                 IF Missing(df, {consistency_pairs.v[k][1], consistency_pairs.v[k][2]})
                 THEN 0
                 ELSE InconsistencyCount(df, consistency_pairs.v[k][1],
                                         consistency_pairs.v[k][2])],
              [k \in 1..Len(consistency_pairs.v) |->
                 [used |-> <<"DataFrame operation used: col1 > col2",
                             consistency_pairs.v[k][1], consistency_pairs.v[k][2]>>,
                  passed |-> <<"Consistency check passed", consistency_pairs.v[k][1],
                               consistency_pairs.v[k][2]>>,
                  failed |-> <<"Consistency check failed", consistency_pairs.v[k][1],
                               consistency_pairs.v[k][2]>>,
                  wrapped |-> <<"Failed to check consistency between fields",
                                consistency_pairs.v[k][1], consistency_pairs.v[k][2]>>]])

(***************************************************************************)
(* DataQualityManager: the state of a session and of one call.             *)
(***************************************************************************)
VARIABLES
    debug,      \* DataQualityManager.debug
    views,      \* the session's temporary views: name -> frame, or None
    log,        \* what the logger has received
    entry,      \* the public method called
    args,       \* its arguments
    pc,         \* the statement the call has reached
    df,         \* its local variable df
    announced,  \* its local variable checks_to_perform
    trace,      \* the passes invoked so far, each with the frame it was given
    outcome     \* how the call ended

qvars == <<debug, views, log, entry, args, pc, df, announced, trace, outcome>>

(***************************************************************************)
(* merge_management: the Delta table and one run of manage_data_merge.     *)
(***************************************************************************)
VARIABLES
    history,    \* the table's commits, oldest first; commit i wrote version i - 1
    margs,      \* the arguments of manage_data_merge
    mpc,        \* the statement the run has reached
    locals,     \* the local variables assigned so far: name -> value
    steps,      \* the steps executed so far
    mlog,       \* what helper.write_message has received
    thrown,     \* the exception the engine raised, NoExc when none
    moutcome    \* how the run ended

mvars == <<history, margs, mpc, locals, steps, mlog, thrown, moutcome>>

vars == <<qvars, mvars>>

ViewNames == {"cleaned_data_view", "temp_original_data", "temp_recent_data",
              "temp_view_check_duplicates"}

\* What the logger receives of the blocks and messages of a pass: _log_block
\* logs only when debug is set, _log_message when debug is set or the level
\* is not "info".
Emitted(events) == SelectSeq(events, LAMBDA e : debug \/ e.ev = "error")

\* _log_block: only a manager built with debug=True logs blocks.
LogBlock(header, lines) == IF debug THEN <<LogEvent(header, lines)>> ELSE <<>>

\* _log_message(message, level="error") for each message of a sequence.
LogErrors(msgs) == [i \in 1..Len(msgs) |-> LogEvent("error", msgs[i])]

NoOutcome == [kind |-> "none", value |-> "", exc |-> NoExc]
ReturnValue(v) == [kind |-> "returned", value |-> v, exc |-> NoExc]
RaisedTo(e) == [kind |-> "raised", value |-> "", exc |-> e]

\* The arguments the model calls the public methods with.
KeyColumnsChoices == {PyList(<<>>), PyList(<<"id">>)}
CriticalColumnsChoices == {None, PyList(<<"val">>)}
ColumnRangesChoices == {None, PyDict(<<<<"val", 1, 2>>>>)}
ReferenceFrames == {None, DataFrame({"id"}, SetToBag({[id |-> 1]}))}
JoinColumnChoices == {None, PyStr("id")}
ConsistencyPairsChoices == {None, PyList(<<<<"id", "val">>>>)}
ColumnsToExcludeChoices == {None, PyList(<<"val">>)}
OrderByChoices == {None, PyStr("val")}

ArgSets ==
    [df : InputFrames,
     key_columns : KeyColumnsChoices,
     critical_columns : CriticalColumnsChoices,
     column_ranges : ColumnRangesChoices,
     reference_df : ReferenceFrames,
     join_column : JoinColumnChoices,
     consistency_pairs : ConsistencyPairsChoices,
     columns_to_exclude : ColumnsToExcludeChoices,
     order_by : OrderByChoices,
     use_sql : BOOLEAN]

\* run_all_checks has no order_by parameter.
RunAllArgSets ==
    [df : InputFrames,
     key_columns : KeyColumnsChoices,
     critical_columns : CriticalColumnsChoices,
     column_ranges : ColumnRangesChoices,
     reference_df : ReferenceFrames,
     join_column : JoinColumnChoices,
     consistency_pairs : ConsistencyPairsChoices,
     columns_to_exclude : ColumnsToExcludeChoices,
     order_by : {None},
     use_sql : BOOLEAN]

NoArgs ==
    [df |-> None, key_columns |-> None, critical_columns |-> None,
     column_ranges |-> None, reference_df |-> None, join_column |-> None,
     consistency_pairs |-> None, columns_to_exclude |-> None,
     order_by |-> None, use_sql |-> FALSE]

\* The session and the manager before any call.
QStart ==
    /\ views = [n \in ViewNames |-> None]
    /\ log = <<>>
    /\ entry = "none"
    /\ args = NoArgs
    /\ pc = "idle"
    /\ df = None
    /\ announced = <<>>
    /\ trace = <<>>
    /\ outcome = NoOutcome

QInit ==
    /\ debug \in BOOLEAN
    /\ QStart

\* _list_checks_to_perform(**kwargs)
ListChecksToPerform(a) ==
    (IF Truthy(a.key_columns)
        THEN <<"Handling Multiple Files", "Duplicate Check">> ELSE <<>>)
    \o (IF Truthy(a.critical_columns) THEN <<"Null Values Check">> ELSE <<>>)
    \o (IF Truthy(a.column_ranges) THEN <<"Value Range Check">> ELSE <<>>)
    \o (IF Truthy(a.reference_df) /\ Truthy(a.join_column)
        THEN <<"Referential Integrity Check">> ELSE <<>>)
    \o (IF Truthy(a.consistency_pairs) THEN <<"Field Consistency Check">> ELSE <<>>)
    \o (IF Truthy(a.columns_to_exclude) THEN <<"Exclude Columns">> ELSE <<>>)

\* The list perform_data_quality_checks builds for its announcement.
ChecksToPerform(a) ==
    (IF Truthy(a.key_columns) THEN <<"Handling Multiple Files">> ELSE <<>>)
    \o (IF Truthy(a.critical_columns) THEN <<"Null Values Check">> ELSE <<>>)
    \o (IF Truthy(a.column_ranges) THEN <<"Value Range Check">> ELSE <<>>)
    \o (IF Truthy(a.reference_df) /\ Truthy(a.join_column)
        THEN <<"Referential Integrity Check">> ELSE <<>>)
    \o (IF Truthy(a.consistency_pairs) THEN <<"Field Consistency Check">> ELSE <<>>)
    \o (IF Truthy(a.columns_to_exclude) THEN <<"Exclude Columns">> ELSE <<>>)

\* The condition of the if statement that guards a stage.
Triggered(stage, a) ==
    CASE stage = "multi" -> Truthy(a.key_columns)
      [] stage = "nulls" -> Truthy(a.critical_columns)
      [] stage = "ranges" -> Truthy(a.column_ranges)
      [] stage = "refint" -> Truthy(a.reference_df) /\ Truthy(a.join_column)
      [] stage = "fields" -> Truthy(a.consistency_pairs)
      [] stage = "exclude" -> Truthy(a.columns_to_exclude)
      [] OTHER -> TRUE

\* StageOrder with the column exclusion moved ahead of the checks.
StageOrderExcludeFirst ==
    <<"multi", "dup", "exclude", "nulls", "ranges", "refint", "fields", "view">>

\* The statements of the try block, in program order.
StageOrder == <<"multi", "dup", "nulls", "ranges", "refint", "fields", "exclude", "view">>

\* The first statement from position i on whose if condition holds.
FirstFrom(i, a) ==
    StageOrder[CHOOSE j \in i..Len(StageOrder) :
                  /\ Triggered(StageOrder[j], a)
                  /\ \A k \in i..(j - 1) : ~Triggered(StageOrder[k], a)]

\* The statement the call executes after a stage.
Following(stage, a) ==
    FirstFrom(1 + CHOOSE i \in 1..Len(StageOrder) : StageOrder[i] = stage, a)

\* A trace entry: the pass, the frame it was given, the frame the caller holds
\* after it, and whether it returned (rather than raised).
Invoked(name, given, res) ==
    [pass |-> name, on |-> given, out |-> IF res.exc = NoExc THEN res.df ELSE given,
     ok |-> res.exc = NoExc]

\* AfterPass with the view created on the way out of a failed call as well.
AfterPassViewOnFailure(stage, res) ==
    /\ IF res.exc = NoExc
       THEN /\ views' = res.views
            /\ df' = res.df
            /\ pc' = Following(stage, args)
            /\ log' = log \o Emitted(res.logged)
            /\ outcome' = outcome
       ELSE LET msg == <<"Data quality checks failed">> \o res.exc.msg
            IN /\ views' = [res.views EXCEPT !["cleaned_data_view"] = df]
               /\ df' = df
               /\ pc' = "done"
               /\ log' = log \o Emitted(res.logged)
                             \o (IF entry = "perform_data_quality_checks"
                                 THEN <<LogEvent("log_end", <<"failure">>)>>
                                 ELSE <<>>)
                             \o LogErrors(<<msg>>)
               /\ outcome' = RaisedTo(Exc("RuntimeError", msg))
    /\ UNCHANGED <<debug, entry, args, announced, mvars>>

\* AfterPass with the exception of the pass let through as it is, without the
\* except clause of the public method.
AfterPassUnwrapped(stage, res) ==
    /\ views' = res.views
    /\ IF res.exc = NoExc
       THEN /\ df' = res.df
            /\ pc' = Following(stage, args)
            /\ log' = log \o Emitted(res.logged)
            /\ outcome' = outcome
       ELSE /\ df' = df
            /\ pc' = "done"
            /\ log' = log \o Emitted(res.logged)
            /\ outcome' = RaisedTo(res.exc)
    /\ UNCHANGED <<debug, entry, args, announced, mvars>>

\* A pass came back with res: go on when it returned; when it raised, the
\* except clause of the public method logs and raises
\* RuntimeError("Data quality checks failed: ...").
AfterPass(stage, res) ==
    /\ views' = res.views
    /\ IF res.exc = NoExc
       THEN /\ df' = res.df
            /\ pc' = Following(stage, args)
            /\ log' = log \o Emitted(res.logged)
            /\ outcome' = outcome
       ELSE LET msg == <<"Data quality checks failed">> \o res.exc.msg
            IN /\ df' = df
               /\ pc' = "done"
               /\ log' = log \o Emitted(res.logged)
                             \o (IF entry = "perform_data_quality_checks"
                                 THEN <<LogEvent("log_end", <<"failure">>)>>
                                 ELSE <<>>)
                             \o LogErrors(<<msg>>)
               /\ outcome' = RaisedTo(Exc("RuntimeError", msg))
    /\ UNCHANGED <<debug, entry, args, announced, mvars>>

HandleMultipleFilesPass ==
    /\ pc = "multi"
    /\ entry = "perform_data_quality_checks"
    /\ Triggered("multi", args)
    /\ \E parseIsAnalysis \in BOOLEAN :
       \E res \in HandleMultipleFiles(views, df, args.key_columns, args.order_by,
                                      args.use_sql, parseIsAnalysis) :
          /\ trace' = Append(trace, Invoked("Handling Multiple Files", df, res))
          /\ AfterPass("multi", res)

CheckForDuplicatesPass ==
    /\ pc = "dup"
    /\ LET res == CheckForDuplicates(views, df, args.key_columns, args.use_sql)
       IN /\ trace' = Append(trace, Invoked("Duplicate Check", df, res))
          /\ AfterPass("dup", res)

CheckForNullsPass ==
    /\ pc = "nulls"
    /\ Triggered("nulls", args)
    /\ LET res == CheckForNulls(views, df, args.critical_columns)
       IN /\ trace' = Append(trace, Invoked("Null Values Check", df, res))
          /\ AfterPass("nulls", res)

CheckValueRangesPass ==
    /\ pc = "ranges"
    /\ Triggered("ranges", args)
    /\ LET res == CheckValueRanges(views, df, args.column_ranges)
       IN /\ trace' = Append(trace, Invoked("Value Range Check", df, res))
          /\ AfterPass("ranges", res)

CheckReferentialIntegrityPass ==
    /\ pc = "refint"
    /\ Triggered("refint", args)
    /\ LET res == CheckReferentialIntegrity(views, df, args.reference_df,
                                            args.join_column)
       IN /\ trace' = Append(trace, Invoked("Referential Integrity Check", df, res))
          /\ AfterPass("refint", res)

CheckConsistencyPass ==
    /\ pc = "fields"
    /\ Triggered("fields", args)
    /\ LET res == CheckConsistencyBetweenFields(views, df, args.consistency_pairs)
       IN /\ trace' = Append(trace, Invoked("Field Consistency Check", df, res))
          /\ AfterPass("fields", res)

ExcludeColumnsPass ==
    /\ pc = "exclude"
    /\ Triggered("exclude", args)
    /\ trace' = Append(trace, Invoked("Exclude Columns", df,
                           Returned(<<>>, Drop(df, args.columns_to_exclude.v), views)))
    /\ df' = Drop(df, args.columns_to_exclude.v)
    /\ log' = log \o LogBlock("Excluding Columns", args.columns_to_exclude.v)
    /\ pc' = Following("exclude", args)
    /\ UNCHANGED <<debug, views, entry, args, announced, outcome, mvars>>

\* createOrReplaceTempView("cleaned_data_view"), log_end and return.
CreateView ==
    /\ pc = "view"
    /\ trace' = Append(trace, Invoked("Create View", df, Returned(<<>>, df, views)))
    /\ views' = [views EXCEPT !["cleaned_data_view"] = df]
    /\ log' = log \o LogBlock("Finishing Results", <<"cleaned_data_view">>)
                  \o (IF entry = "perform_data_quality_checks"
                      THEN <<LogEvent("log_end", <<"success">>)>>
                      ELSE <<>>)
    /\ outcome' = ReturnValue("cleaned_data_view")
    /\ pc' = "done"
    /\ UNCHANGED <<debug, entry, args, df, announced, mvars>>

\* perform_data_quality_checks, up to its try block.
PerformDataQualityChecks(a) ==
    /\ entry' = "perform_data_quality_checks"
    /\ args' = a
    /\ df' = a.df
    /\ announced' = ChecksToPerform(a)
    /\ log' = log \o <<LogEvent("log_start", <<>>)>>
                  \o LogBlock("Quality Checks to Perform", ChecksToPerform(a))
    /\ pc' = FirstFrom(1, a)
    /\ UNCHANGED <<debug, views, trace, outcome, mvars>>

\* Python's binding of a call's arguments to a method's parameters (after
\* self): positional arguments fill the parameters from the left, then
\* keywords, then defaults; a parameter left without a value is a TypeError.
BindCall(params, defaults, positional, keywords) ==
    LET given(i) == \/ i <= Len(positional)
                    \/ params[i] \in DOMAIN keywords
                    \/ params[i] \in DOMAIN defaults
        value(i) == IF i <= Len(positional) THEN positional[i]
                    ELSE IF params[i] \in DOMAIN keywords THEN keywords[params[i]]
                    ELSE defaults[params[i]]
        have == {i \in 1..Len(params) : given(i)}
    IN [missing |-> {params[i] : i \in (1..Len(params)) \ have},
        bound |-> [n \in {params[i] : i \in have} |->
                     value(CHOOSE i \in have : params[i] = n)]]

\* def _handle_multiple_files(self, spark, df, key_columns, order_by=None, use_sql=False)
HandleMultipleFilesParams == <<"spark", "df", "key_columns", "order_by", "use_sql">>
HandleMultipleFilesDefaults == ("order_by" :> None) @@ ("use_sql" :> FALSE)

\* run_all_checks, up to its try block: it has no order_by parameter, and
\* neither log_start nor an announcement.
RunAllChecks(a) ==
    /\ entry' = "run_all_checks"
    /\ args' = a
    /\ df' = a.df
    /\ pc' = "multi"
    /\ UNCHANGED <<debug, views, log, announced, trace, outcome, mvars>>

\* run_all_checks: self._handle_multiple_files(df, key_columns, use_sql=use_sql)
RunAllHandleMultipleFiles ==
    /\ pc = "multi"
    /\ entry = "run_all_checks"
    /\ LET call == BindCall(HandleMultipleFilesParams, HandleMultipleFilesDefaults,
                            <<df, args.key_columns>>, ("use_sql" :> args.use_sql))
       IN IF call.missing # {}
          THEN /\ trace' = trace
               /\ AfterPass("multi", Raised(Exc("TypeError",
                               <<"missing required positional argument">>),
                               <<>>, df, views))
          ELSE \E parseIsAnalysis \in BOOLEAN :
               \E res \in HandleMultipleFiles(views, call.bound["df"],
                             call.bound["key_columns"], call.bound["order_by"],
                             call.bound["use_sql"], parseIsAnalysis) :
                  /\ trace' = Append(trace, Invoked("Handling Multiple Files", df, res))
                  /\ AfterPass("multi", res)

\* _list_available_checks: the checks it describes, in the order of its dict.
ListAvailableChecks ==
    <<"Handling Multiple Files", "Duplicate Check", "Null Values Check",
      "Value Range Check", "Referential Integrity Check", "Field Consistency Check",
      "Exclude Columns">>

\* The blocks describe_available_checks has logged so far.
Described == {i \in 1..Len(log) : log[i].ev = "Available Quality Checks"}

\* describe_available_checks: one block, a line for each available check.
DescribeAvailableChecks ==
    /\ Cardinality(Described) < MaxDescribed
    /\ log' = log \o LogBlock("Available Quality Checks", ListAvailableChecks)
    /\ UNCHANGED <<debug, views, entry, args, pc, df, announced, trace, outcome, mvars>>

\* A notebook calls a public method of the manager.
Call ==
    /\ pc = "idle"
    /\ \/ \E a \in ArgSets : PerformDataQualityChecks(a)
       \/ \E a \in RunAllArgSets : RunAllChecks(a)
       \/ DescribeAvailableChecks

QNext ==
    \/ Call
    \/ HandleMultipleFilesPass
    \/ RunAllHandleMultipleFiles
    \/ CheckForDuplicatesPass
    \/ CheckForNullsPass
    \/ CheckValueRangesPass
    \/ CheckReferentialIntegrityPass
    \/ CheckConsistencyPass
    \/ ExcludeColumnsPass
    \/ CreateView


(***************************************************************************)
(* merge_management.                                                       *)
(***************************************************************************)
\* key_columns strings, as sequences of characters (a column name counts as one).
KeyColumnStrings ==
    {<<"id">>, <<"id", ",", "val">>, <<" ", "id", " ", ",", " ", "val">>,
     <<"val", ",", "id", " ">>, <<"id", ",">>}

\* What writer.get_destination_path_extended and
\* writer.get_databricks_table_info_extended answer for the call's dataset.
Destinations ==
    {[destination_path |-> "path_a", database_name |-> "db_a", table_name |-> "tbl_a"],
     [destination_path |-> "path_b", database_name |-> "db_b", table_name |-> "tbl_b"]}

\* The exceptions an engine call can raise.
EngineErrors == {Exc("AnalysisException", <<"AnalysisException">>),
                 Exc("ConcurrentAppendException", <<"ConcurrentAppendException">>)}

MergeArgSets ==
    [helper : BOOLEAN, key_columns : KeyColumnStrings, view_name : {"cleaned_data_view"},
     destination : Destinations]

NoMergeArgs ==
    [helper |-> FALSE, key_columns |-> <<>>, view_name |-> "",
     destination |-> [destination_path |-> "", database_name |-> "", table_name |-> ""]]

\* str.split(sep)
RECURSIVE Split(_, _)
Split(s, sep) ==
    IF \E i \in 1..Len(s) : s[i] = sep
    THEN LET i == CHOOSE k \in 1..Len(s) :
                     s[k] = sep /\ \A j \in 1..(k - 1) : s[j] # sep
         IN <<SubSeq(s, 1, i - 1)>> \o Split(SubSeq(s, i + 1, Len(s)), sep)
    ELSE <<s>>

\* str.strip()
RECURSIVE Strip(_)
Strip(s) ==
    IF s # <<>> /\ Head(s) = " " THEN Strip(Tail(s))
    ELSE IF s # <<>> /\ s[Len(s)] = " " THEN Strip(SubSeq(s, 1, Len(s) - 1))
    ELSE s

\* GenerateMergeSql with the target side of each equality left unstripped.
GenerateMergeSqlUnstripped(view_name, database_name, table_name, key_columns) ==
    LET cols == Split(key_columns, ",")
    IN [target |-> <<database_name, table_name>>,
        source |-> view_name,
        on |-> [i \in 1..Len(cols) |->
                  [left |-> Strip(cols[i]), right |-> cols[i]]]]

\* generate_merge_sql: the statement, by its parts; `on` lists the equalities
\* that ' AND ' joins, each "s.<left> = t.<right>".
GenerateMergeSql(view_name, database_name, table_name, key_columns) ==
    LET cols == Split(key_columns, ",")
    IN [target |-> <<database_name, table_name>>,
        source |-> view_name,
        on |-> [i \in 1..Len(cols) |->
                  [left |-> Strip(cols[i]), right |-> Strip(cols[i])]]]

\* The version DESCRIBE HISTORY ... LIMIT 1 reports: the latest one.
CurrentVersion(h) == Len(h) - 1

\* The versions the run's own MERGE statements committed.
MergeVersions(h) == {i - 1 : i \in {k \in 1..Len(h) : h[k] = "merge"}}

WriteMessage(msgs) == IF margs.helper THEN mlog \o msgs ELSE mlog

MStart ==
    /\ margs = NoMergeArgs
    /\ mpc = "idle"
    /\ locals = <<>>
    /\ steps = <<>>
    /\ mlog = <<>>
    /\ thrown = NoExc
    /\ moutcome = NoOutcome

\* FollowingStep with the MERGE statement built before the version is read.
FollowingStepBuildFirst(step) ==
    CASE step = "resolve" -> "build"
      [] step = "build" -> "version"
      [] step = "version" -> "merge"
      [] step = "merge" -> "diff"
      [] step = "diff" -> "done"

\* The order of the statements of manage_data_merge.
FollowingStep(step) ==
    CASE step = "resolve" -> "version"
      [] step = "version" -> "build"
      [] step = "build" -> "merge"
      [] step = "merge" -> "diff"
      [] step = "diff" -> "done"

\* manage_data_merge is called.
ManageDataMerge ==
    /\ mpc = "idle"
    /\ \E a \in MergeArgSets : margs' = a
    /\ mpc' = "resolve"
    /\ UNCHANGED <<history, locals, steps, mlog, thrown, moutcome, qvars>>

\* get_merge_destination_details
GetMergeDestinationDetails ==
    /\ mpc = "resolve"
    /\ locals' = ("destination_path" :> margs.destination.destination_path)
                 @@ ("database_name" :> margs.destination.database_name)
                 @@ ("table_name" :> margs.destination.table_name)
    /\ mlog' = WriteMessage(<<"Destination path", "Database name", "Table name">>)
    /\ steps' = Append(steps, "resolve")
    /\ mpc' = FollowingStep("resolve")
    /\ UNCHANGED <<history, margs, thrown, moutcome, qvars>>

\* Reraise with the exception wrapped in a new one instead of a bare `raise`.
ReraiseWrapped(e, messages) ==
    /\ mlog' = WriteMessage(messages)
    /\ moutcome' = RaisedTo(Exc("RuntimeError", <<messages[Len(messages)]>> \o e.msg))
    /\ mpc' = "done"

\* An except clause of the module: write the messages when a helper is given,
\* then `raise`.
Reraise(e, messages) ==
    /\ mlog' = WriteMessage(messages)
    /\ moutcome' = RaisedTo(e)
    /\ mpc' = "done"

\* get_pre_merge_version
GetPreMergeVersion ==
    /\ mpc = "version"
    /\ steps' = Append(steps, "version")
    /\ \/ /\ locals' = locals @@ ("pre_merge_version" :> CurrentVersion(history))
          /\ mpc' = FollowingStep("version")
          /\ UNCHANGED <<mlog, thrown, moutcome>>
       \/ /\ \E e \in EngineErrors :
                thrown' = e /\ Reraise(e, <<"Error retrieving pre-merge version">>)
          /\ UNCHANGED locals
    /\ UNCHANGED <<history, margs, qvars>>

\* generate_merge_sql
GenerateMergeSqlStep ==
    /\ mpc = "build"
    /\ locals' = locals @@ ("merge_sql" :>
                    GenerateMergeSql(margs.view_name, locals["database_name"],
                                     locals["table_name"], margs.key_columns))
    /\ mlog' = WriteMessage(<<"Executing SQL query">>)
    /\ steps' = Append(steps, "build")
    /\ mpc' = FollowingStep("build")
    /\ UNCHANGED <<history, margs, thrown, moutcome, qvars>>

\* The post-merge version execute_merge_and_get_post_version computes.
PostMergeVersion(pre_merge_version) == pre_merge_version + 1

\* execute_merge_and_get_post_version: a MERGE that succeeds commits the next
\* version of the table; one that fails commits nothing.
ExecuteMergeAndGetPostVersion ==
    /\ mpc = "merge"
    /\ \/ /\ history' = Append(history, "merge")
          /\ mlog' = WriteMessage(<<"Data merged successfully.">>)
          /\ locals' = locals @@ ("post_merge_version" :>
                                    PostMergeVersion(locals["pre_merge_version"]))
          /\ steps' = steps \o <<"merge", "post">>
          /\ mpc' = FollowingStep("merge")
          /\ UNCHANGED <<thrown, moutcome>>
       \/ /\ \E e \in EngineErrors :
                thrown' = e /\ Reraise(e, <<"Error during data merge">>)
          /\ steps' = Append(steps, "merge")
          /\ UNCHANGED <<history, locals>>
    /\ UNCHANGED <<margs, qvars>>

\* display_newly_merged_data: VERSION AS OF post EXCEPT VERSION AS OF pre.
\* The module neither defines nor imports `display`: a notebook kernel puts it
\* into the builtins, elsewhere the call is a NameError, which the except
\* clause reports and re-raises like an engine error.
DisplayNewlyMergedData ==
    /\ mpc = "diff"
    /\ steps' = Append(steps, "diff")
    /\ \/ /\ Reraise(Exc("NameError", <<"name 'display' is not defined">>),
                      <<"Displaying newly merged data with query",
                        "Error displaying merged data">>)
          /\ UNCHANGED <<locals, thrown>>
       \/ /\ locals' = locals @@ ("displayed" :>
                          [after |-> locals["post_merge_version"],
                           before |-> locals["pre_merge_version"]])
          /\ mlog' = WriteMessage(<<"Displaying newly merged data with query">>)
          /\ moutcome' = ReturnValue("None")
          /\ mpc' = FollowingStep("diff")
          /\ UNCHANGED thrown
       \/ /\ \E e \in EngineErrors :
                /\ thrown' = e
                /\ Reraise(e, <<"Displaying newly merged data with query",
                                "Error displaying merged data">>)
          /\ UNCHANGED locals
    /\ UNCHANGED <<history, margs, qvars>>

\* Another writer commits to the same table while the run is under way.
OtherWriterCommits ==
    /\ mpc \notin {"idle", "done"}
    /\ Len(history) < MaxStartVersion + MaxOtherCommits + 2
    /\ history' = Append(history, "other")
    /\ UNCHANGED <<margs, mpc, locals, steps, mlog, thrown, moutcome, qvars>>

MNext ==
    \/ ManageDataMerge
    \/ GetMergeDestinationDetails
    \/ GetPreMergeVersion
    \/ GenerateMergeSqlStep
    \/ ExecuteMergeAndGetPostVersion
    \/ DisplayNewlyMergedData
    \/ OtherWriterCommits

(***************************************************************************)
(* A session in which an earlier call has succeeded.                       *)
(***************************************************************************)
\* The frame of the earlier call.
EarlierFrame ==
    DataFrame(AllColumns, SetToBag({[input_file_name |-> 1, id |-> 1, val |-> 1]}))

\* The views the earlier call left:
\* perform_data_quality_checks(spark, EarlierFrame, ['id'], order_by='val',
\* use_sql=True) by a manager with debug=False.
EarlierViews ==
    LET handled == CHOOSE r \in HandleMultipleFiles([n \in ViewNames |-> None],
                                   EarlierFrame, PyList(<<"id">>), PyStr("val"),
                                   TRUE, TRUE) : TRUE
        checked == CheckForDuplicates(handled.views, handled.df,
                                      PyList(<<"id">>), TRUE)
    IN [checked.views EXCEPT !["cleaned_data_view"] = checked.df]

SessionInit ==
    /\ debug = FALSE
    /\ views = EarlierViews
    /\ log = <<LogEvent("log_start", <<>>), LogEvent("log_end", <<"success">>)>>
    /\ entry = "none"
    /\ args = NoArgs
    /\ pc = "idle"
    /\ df = None
    /\ announced = <<>>
    /\ trace = <<>>
    /\ outcome = NoOutcome
    /\ MStart
    /\ history = <<"other">>

SessionNext == QNext

(***************************************************************************)
(* _check_value_ranges called on its own.                                  *)
(***************************************************************************)
\* The column_ranges dictionaries of such a call, in insertion order.
RangeChoices ==
    {PyDict(<<>>),
     PyDict(<<<<"val", 1, 3>>>>),
     PyDict(<<<<"val", 1, 2>>>>),
     PyDict(<<<<"val", 2, 3>>>>),
     PyDict(<<<<"val", 1, 3>>, <<"id", 1, 1>>>>),
     PyDict(<<<<"id", 2, 2>>, <<"val", 3, 3>>>>)}

\* The frames of such a call: with and without the column val.
RangeFrames == InputFrames \cup {Drop(f, <<"val">>) : f \in InputFrames}

RangeInit ==
    /\ debug \in BOOLEAN
    /\ views = [n \in ViewNames |-> None]
    /\ log = <<>>
    /\ entry = "_check_value_ranges"
    /\ args \in {[NoArgs EXCEPT !.df = f, !.column_ranges = c] :
                    f \in RangeFrames, c \in RangeChoices}
    /\ pc = "ranges"
    /\ df = args.df
    /\ announced = <<>>
    /\ trace = <<>>
    /\ outcome = NoOutcome
    /\ MStart
    /\ history = <<"other">>

\* self._check_value_ranges(df, column_ranges), seen from its caller.
CheckValueRangesCall ==
    /\ pc = "ranges"
    /\ entry = "_check_value_ranges"
    /\ LET res == CheckValueRanges(views, df, args.column_ranges)
       IN /\ trace' = Append(trace, Invoked("Value Range Check", df, res))
          /\ log' = log \o Emitted(res.logged)
          /\ outcome' = IF res.exc = NoExc THEN ReturnValue("None")
                         ELSE RaisedTo(res.exc)
    /\ pc' = "done"
    /\ UNCHANGED <<debug, views, entry, args, df, announced, mvars>>

RangeNext == CheckValueRangesCall

(***************************************************************************)
(* Properties of the DataQualityManager.                                   *)
(***************************************************************************)
Ran(name) == \E i \in 1..Len(trace) : trace[i].pass = name
GivenTo(name) == trace[CHOOSE i \in 1..Len(trace) : trace[i].pass = name].on
LastPass == trace[Len(trace)]
IsPerform == entry = "perform_data_quality_checks"

\* A frame has rows that a check of the call counts as violations.
DuplicateViolation(on, a) ==
    \E r \in DOMAIN on.rows :
        \/ on.rows[r] > 1
        \/ \E q \in DOMAIN on.rows :
              q # r /\ \A c \in Range(AsList(a.key_columns)) : q[c] = r[c]
NullViolation(on, a) ==
    \E c \in Range(a.critical_columns.v) : \E r \in DOMAIN on.rows : r[c] = Null
RangeViolation(on, a) ==
    \E it \in Range(a.column_ranges.v) : \E r \in DOMAIN on.rows :
        r[it[1]] # Null /\ (r[it[1]] < it[2] \/ r[it[1]] > it[3])
ReferenceViolation(on, a) ==
    \E r \in DOMAIN on.rows :
        \A s \in DOMAIN a.reference_df.rows : r[a.join_column.v] # s[a.join_column.v]
ConsistencyViolation(on, a) ==
    \E it \in Range(a.consistency_pairs.v) : \E r \in DOMAIN on.rows :
        r[it[1]] # Null /\ r[it[2]] # Null /\ r[it[1]] > r[it[2]]

\* The pass of a trace entry, run on the frame it was given, counts violations.
Violates(e, a) ==
    CASE e.pass = "Duplicate Check" -> DuplicateViolation(e.on, a)
      [] e.pass = "Null Values Check" -> NullViolation(e.on, a)
      [] e.pass = "Value Range Check" -> RangeViolation(e.on, a)
      [] e.pass = "Referential Integrity Check" -> ReferenceViolation(e.on, a)
      [] e.pass = "Field Consistency Check" -> ConsistencyViolation(e.on, a)
      [] OTHER -> FALSE

\* C1: perform_data_quality_checks creates 'cleaned_data_view' and returns its
\* name only if every pass that ran found no violation: a pass that counts a
\* violating row is the last one of the call, which raises and leaves no view.
C1_ViewOnlyWithoutViolations ==
    IsPerform =>
      /\ \A i \in 1..Len(trace) :
            Violates(trace[i], args) => outcome.kind = "raised" /\ i = Len(trace)
      /\ outcome.kind = "returned" =>
            /\ outcome.value = "cleaned_data_view"
            /\ views["cleaned_data_view"].t = "df"
      /\ views["cleaned_data_view"].t = "df" => outcome.kind = "returned"
      /\ outcome.kind = "raised" => outcome.exc.type = "RuntimeError"

\* A call whose range check, after three passes that returned, finds a value
\* out of range.
C1_Witness ==
    /\ IsPerform
    /\ outcome.kind = "raised"
    /\ Len(trace) = 4
    /\ LastPass.pass = "Value Range Check"
    /\ Violates(LastPass, args)

\* The rows q and r agree on the columns of key_columns.
SameKey(q, r, a) == \A c \in Range(AsList(a.key_columns)) : q[c] = r[c]

\* C2: _handle_multiple_files keeps the latest record per key: its result holds
\* at most one record for each combination of values of key_columns, the one
\* that sorts first by the ordering columns descending (input_file_name by
\* default), and every key of the input survives.
C2_LatestRecordPerKey ==
    (IsPerform /\ Ran("Handling Multiple Files") /\ trace[1].ok) =>
       LET given == DOMAIN trace[1].on.rows
           kept == trace[1].out.rows
       IN /\ \A r \in DOMAIN kept :
               /\ kept[r] = 1
               /\ r \in given
               /\ \A q \in DOMAIN kept : SameKey(q, r, args) => q = r
               /\ \A q \in given :
                     SameKey(q, r, args) =>
                        ~SortsBefore(q, r, OrderColumns(args.order_by))
          /\ \A q \in given : \E r \in DOMAIN kept : SameKey(q, r, args)

\* The parameter that, by the documentation, triggers a pass is supplied.
Supplied(name, a) ==
    CASE name \in {"Handling Multiple Files", "Duplicate Check"} -> Truthy(a.key_columns)
      [] name = "Null Values Check" -> Truthy(a.critical_columns)
      [] name = "Value Range Check" -> Truthy(a.column_ranges)
      [] name = "Referential Integrity Check" ->
            Truthy(a.reference_df) /\ Truthy(a.join_column)
      [] name = "Field Consistency Check" -> Truthy(a.consistency_pairs)
      [] name = "Exclude Columns" -> Truthy(a.columns_to_exclude)
      [] OTHER -> TRUE

PassOrder ==
    <<"Handling Multiple Files", "Duplicate Check", "Null Values Check",
      "Value Range Check", "Referential Integrity Check", "Field Consistency Check",
      "Exclude Columns", "Create View">>
Position(name) == CHOOSE i \in 1..Len(PassOrder) : PassOrder[i] = name
CheckNames == {PassOrder[i] : i \in 2..6}

\* C6: in perform_data_quality_checks a pass runs if and only if its triggering
\* parameter is supplied: no pass whose parameter is absent or empty is invoked,
\* and a call that returns has invoked every pass whose parameter is supplied.
C6_PassRunsIffParameterSupplied ==
    IsPerform =>
      /\ \A i \in 1..Len(trace) : Supplied(trace[i].pass, args)
      /\ outcome.kind = "returned" =>
            \A i \in 1..Len(PassOrder) : Supplied(PassOrder[i], args) => Ran(PassOrder[i])

\* C7: the passes that run do so in the fixed order, each at most once; a pass
\* that fails is the last thing the call does (no later pass, no view); and
\* every check is given the frame the multiple-file pass returned (the input
\* frame when that pass did not run), with all its columns, while the view is
\* created from that frame less the excluded columns.
C7_FixedOrderStopAtFirstFailure ==
    IsPerform =>
      LET deduplicated == IF Ran("Handling Multiple Files") THEN trace[1].out
                          ELSE args.df
      IN /\ \A i, j \in 1..Len(trace) :
               i < j => /\ Position(trace[i].pass) < Position(trace[j].pass)
                        /\ trace[i].ok
         /\ \A i \in 1..Len(trace) :
               /\ ~trace[i].ok => /\ pc = "done"
                                  /\ outcome.kind = "raised"
                                  /\ views["cleaned_data_view"].t = "none"
               /\ trace[i].pass \in CheckNames \cup {"Exclude Columns"} =>
                     /\ trace[i].on = deduplicated
                     /\ trace[i].on.cols = args.df.cols
               /\ trace[i].pass = "Create View" =>
                     /\ ~Ran("Exclude Columns") => trace[i].on = deduplicated
                     /\ trace[i].on.cols =
                           IF Truthy(args.columns_to_exclude)
                           THEN args.df.cols \ Range(args.columns_to_exclude.v)
                           ELSE args.df.cols
                     /\ views["cleaned_data_view"] = trace[i].on
         /\ outcome.kind = "raised" => ~LastPass.ok

\* A call with every parameter supplied whose passes all return.
C7_Witness ==
    /\ IsPerform
    /\ outcome.kind = "returned"
    /\ [i \in 1..Len(trace) |-> trace[i].pass] = PassOrder
    /\ Count(args.df) = MaxRows
    /\ Count(trace[1].out) < Count(args.df)

\* C10: the list announced as 'Checks to be performed' names exactly the passes
\* a call invokes when no pass fails, and agrees with _list_checks_to_perform.
C10_AnnouncedListMatchesInvokedPasses ==
    (IsPerform /\ outcome.kind = "returned") =>
      /\ announced = SelectSeq([i \in 1..Len(trace) |-> trace[i].pass],
                               LAMBDA n : n # "Create View")
      /\ announced = ListChecksToPerform(args)

NoViews == [n \in ViewNames |-> None]

\* What the other path (SQL for a DataFrame call, DataFrame for a SQL call) can
\* make of the frame a pass was given.
OtherPathHandle(given, a) ==
    UNION {HandleMultipleFiles(NoViews, given, a.key_columns, a.order_by,
                               ~a.use_sql, p) : p \in BOOLEAN}
OtherPathDuplicates(given, a) ==
    CheckForDuplicates(NoViews, given, a.key_columns, ~a.use_sql)

\* C8: the SQL path and the DataFrame path are equivalent: what
\* _handle_multiple_files did on the path the call chose (the records it kept,
\* or that it raised) is something the other path can do on the same frame,
\* key_columns and order_by, and _check_for_duplicates passes on one path
\* exactly when it passes on the other.
C8_SqlAndDataFramePathsAgree ==
    IsPerform =>
      \A i \in 1..Len(trace) :
        /\ trace[i].pass = "Handling Multiple Files" =>
              \E r \in OtherPathHandle(trace[i].on, args) :
                 /\ (r.exc = NoExc) = trace[i].ok
                 /\ trace[i].ok => r.df = trace[i].out
        /\ (trace[i].pass = "Duplicate Check" /\ Truthy(args.key_columns)) =>
              (OtherPathDuplicates(trace[i].on, args).exc = NoExc) = trace[i].ok

\* No check that the arguments enable counts a violation on frame d.
Clean(d, a) ==
    /\ ~DuplicateViolation(d, a)
    /\ Truthy(a.critical_columns) => ~NullViolation(d, a)
    /\ Truthy(a.column_ranges) => ~RangeViolation(d, a)
    /\ (Truthy(a.reference_df) /\ Truthy(a.join_column)) => ~ReferenceViolation(d, a)
    /\ Truthy(a.consistency_pairs) => ~ConsistencyViolation(d, a)

\* C9: run_all_checks executes the checks its parameters enable: on input whose
\* enabled checks find no violation (whatever record the deduplication keeps)
\* it creates 'cleaned_data_view' and returns that name.
C9_RunAllChecksReturnsView ==
    (/\ entry = "run_all_checks"
     /\ pc = "done"
     /\ Truthy(args.key_columns)
     /\ ~args.use_sql
     /\ \A r \in HandleMultipleFiles(NoViews, args.df, args.key_columns, None,
                                     FALSE, FALSE) : Clean(r.df, args))
    => /\ outcome = ReturnValue("cleaned_data_view")
       /\ views["cleaned_data_view"].t = "df"

\* The positions of the logger's events of one kind.
Logged(ev) == {i \in 1..Len(log) : log[i].ev = ev}

\* C13: a call of perform_data_quality_checks emits log_start once, before
\* anything else it logs, and no log_end while it runs; when it ends it has
\* emitted log_end
\* exactly once and either returns 'cleaned_data_view' right after
\* log_end(success=True), or raises a RuntimeError whose message starts with
\* 'Data quality checks failed' after log_end(success=False), whatever the
\* type of the exception the pass or the engine raised.
C13_StartEndOnceOnlyRuntimeError ==
    IsPerform =>
      /\ Cardinality(Logged("log_start")) = 1
      /\ \A i \in 1..Len(log) :
            (\A j \in Logged("log_start") : i < j) =>
               log[i].ev = "Available Quality Checks"
      /\ pc # "done" => Logged("log_end") = {} /\ outcome = NoOutcome
      /\ pc = "done" =>
            /\ Cardinality(Logged("log_end")) = 1
            /\ \/ /\ outcome = ReturnValue("cleaned_data_view")
                  /\ log[Len(log)] = LogEvent("log_end", <<"success">>)
                  /\ \A i \in 1..Len(trace) : trace[i].ok
               \/ /\ outcome.kind = "raised"
                  /\ outcome.exc.type = "RuntimeError"
                  /\ outcome.exc.msg[1] = "Data quality checks failed"
                  /\ log[Len(log) - 1] = LogEvent("log_end", <<"failure">>)
                  /\ log[Len(log)] = LogEvent("error", outcome.exc.msg)
                  /\ ~LastPass.ok

\* A call whose multiple-file pass let the engine's ParseException through,
\* which is no RuntimeError.
C13_Witness ==
    /\ IsPerform
    /\ pc = "done"
    /\ outcome.kind = "raised"
    /\ outcome.exc.msg = <<"Data quality checks failed", "ParseException">>
    /\ Len(trace) = 1
    /\ Logged("log_end") # {}

\* C14: a call of perform_data_quality_checks that raises leaves
\* 'cleaned_data_view' as it was (a call touches it only when it returns), so
\* the view of an earlier successful call still holds that call's data; and a
\* call with use_sql=False creates or replaces no other temporary view.
C14_FailedCallLeavesViewUnchanged ==
    IsPerform =>
      /\ outcome.kind # "returned" =>
            views["cleaned_data_view"] = EarlierViews["cleaned_data_view"]
      /\ ~args.use_sql =>
            \A n \in ViewNames \ {"cleaned_data_view"} : views[n] = EarlierViews[n]

\* A DataFrame-path call on other data than the earlier call's, whose null
\* check fails after two passes that returned.
C14_Witness ==
    /\ IsPerform
    /\ outcome.kind = "raised"
    /\ ~args.use_sql
    /\ Len(trace) = 3
    /\ LastPass.pass = "Null Values Check"
    /\ LastPass.on # EarlierViews["cleaned_data_view"]
    /\ EarlierViews["cleaned_data_view"] = EarlierFrame
    /\ EarlierViews["temp_recent_data"].t = "df"
    /\ views = EarlierViews

\* Item k of column_ranges has a row of frame d whose value lies below its
\* minimum or above its maximum.
OutOfRange(d, items, k) ==
    /\ items[k][1] \in d.cols
    /\ \E r \in DOMAIN d.rows :
          /\ r[items[k][1]] # Null
          /\ r[items[k][1]] < items[k][2] \/ r[items[k][1]] > items[k][3]
\* Item k names a column the frame does not have: the engine rejects the filter.
Unresolved(d, items, k) == items[k][1] \notin d.cols
IsRangeCall == entry = "_check_value_ranges" /\ pc = "done"

\* C12 as stated: _check_value_ranges raises if and only if some row has, in a
\* column of column_ranges, a value below the minimum or above the maximum.
C12_RaisesIffOutOfRange ==
    IsRangeCall =>
      LET items == args.column_ranges.v
      IN (outcome.kind = "raised") <=>
            \E k \in 1..Len(items) : OutOfRange(args.df, items, k)

\* C12: _check_value_ranges raises if and only if some item of column_ranges
\* has a row out of its range [min, max] (bounds included in the range, NULL
\* never out of range) or names a column the frame lacks; the items are taken
\* in the order of column_ranges and the first such item ends the check, with
\* the error naming its column.
C12_RangeCheckInclusiveInOrder ==
    IsRangeCall =>
      LET items == args.column_ranges.v
          stops(k) == OutOfRange(args.df, items, k) \/ Unresolved(args.df, items, k)
      IN /\ (outcome.kind = "raised") <=> \E k \in 1..Len(items) : stops(k)
         /\ \A k \in 1..Len(items) :
               (stops(k) /\ \A j \in 1..(k - 1) : ~stops(j)) =>
                  /\ outcome.exc.type = "RuntimeError"
                  /\ outcome.exc.msg =
                        <<"Failed to check value ranges for column", items[k][1]>>
                        \o (IF Unresolved(args.df, items, k) THEN AnalysisError.msg
                            ELSE <<"Value range check failed", items[k][1]>>)
         /\ outcome.kind = "returned" =>
               \A k \in 1..Len(items) : \A r \in DOMAIN args.df.rows :
                  r[items[k][1]] \in {Null} \cup (items[k][2]..items[k][3])

\* A check that its second column ends: the rows hold both bounds of the first
\* column's range, which pass, and one value of the second column out of range.
C12_Witness ==
    /\ IsRangeCall
    /\ args.column_ranges = PyDict(<<<<"val", 1, 3>>, <<"id", 1, 1>>>>)
    /\ args.df.cols = AllColumns
    /\ \E r, q \in DOMAIN args.df.rows : r.val = 1 /\ q.val = 3
    /\ outcome.kind = "raised"
    /\ outcome.exc.msg[2] = "id"

(***************************************************************************)
(* Properties of manage_data_merge.                                        *)
(***************************************************************************)
MergeStepOrder == <<"resolve", "version", "build", "merge", "post", "diff">>
IsPrefix(s, t) == Len(s) <= Len(t) /\ \A i \in 1..Len(s) : s[i] = t[i]
Stepped(name) == \E i \in 1..Len(steps) : steps[i] = name

\* C3: the steps of manage_data_merge happen in the order resolve, read
\* version, build MERGE, execute MERGE, compute post version, diff query, each
\* at most once; the version is read before the MERGE is executed, and a run
\* that completes has executed the MERGE exactly once.
C3_StepsInOrder ==
    /\ IsPrefix(steps, MergeStepOrder)
    /\ Cardinality(MergeVersions(history)) <= 1
    /\ MergeVersions(history) # {} =>
          /\ Stepped("version")
          /\ "pre_merge_version" \in DOMAIN locals
    /\ moutcome.kind = "returned" =>
          /\ steps = MergeStepOrder
          /\ Cardinality(MergeVersions(history)) = 1

\* A run that completed although another writer committed to the table after
\* the run's MERGE.
C3_Witness ==
    /\ moutcome.kind = "returned"
    /\ steps = MergeStepOrder
    /\ \E i, j \in 1..Len(history) :
          i < j /\ history[i] = "merge" /\ history[j] = "other"

\* C4: the value execute_merge_and_get_post_version returns is the version the
\* table has as a result of this MERGE, so the diff query compares the table
\* right before and right after this MERGE, also when another writer commits
\* during the run.
C4_PostVersionIsMergeVersion ==
    /\ "post_merge_version" \in DOMAIN locals =>
          MergeVersions(history) = {locals["post_merge_version"]}
    /\ "displayed" \in DOMAIN locals =>
          /\ MergeVersions(history) = {locals["displayed"].after}
          /\ locals["displayed"].before = locals["displayed"].after - 1

\* The message an except clause writes for the step that failed.
FailureMessage(step) ==
    CASE step = "version" -> "Error retrieving pre-merge version"
      [] step = "merge" -> "Error during data merge"
      [] step = "diff" -> "Error displaying merged data"

\* C5: when an engine call fails, the engine's exception reaches the caller of
\* manage_data_merge unchanged, the matching message is written when a helper
\* is given (and none otherwise), and no later step runs: after a failed
\* version read no MERGE is executed, after a failed MERGE no diff query is run.
C5_EngineFailureReraised ==
    thrown # NoExc =>
      LET failed == steps[Len(steps)]
      IN /\ thrown \in EngineErrors
         /\ moutcome = RaisedTo(thrown)
         /\ mpc = "done"
         /\ failed \in {"version", "merge", "diff"}
         /\ IsPrefix(steps, MergeStepOrder)
         /\ IF margs.helper THEN mlog[Len(mlog)] = FailureMessage(failed)
            ELSE mlog = <<>>
         /\ failed = "version" => MergeVersions(history) = {} /\ ~Stepped("merge")
         /\ failed = "merge" => MergeVersions(history) = {} /\ ~Stepped("diff")
         /\ "displayed" \notin DOMAIN locals

\* A MERGE that failed in a run with a helper.
C5_Witness ==
    /\ moutcome.kind = "raised"
    /\ margs.helper
    /\ steps = <<"resolve", "version", "build", "merge">>
    /\ thrown.type = "ConcurrentAppendException"

\* The positions of the commas of a key_columns string, and its i-th entry:
\* what lies between comma i - 1 and comma i, without its blanks.
Commas(s) == {k \in 1..Len(s) : s[k] = ","}
EntryOf(s, i) ==
    LET before == {k \in 1..Len(s) : Cardinality({c \in Commas(s) : c < k}) = i - 1}
    IN SelectSeq([k \in 1..Len(s) |-> IF k \in before THEN s[k] ELSE " "],
                 LAMBDA x : x \notin {" ", ","})

\* C11: generate_merge_sql builds the ON condition from key_columns only: one
\* equality s.<col> = t.<col> per comma-separated entry, in the given order,
\* each entry without its surrounding blanks; the statement targets
\* <database_name>.<table_name> with view_name as its source, and building it
\* executes nothing on the engine (no commit, no engine error).
C11_MergeSqlFromKeyColumns ==
    "merge_sql" \in DOMAIN locals =>
      LET sql == locals["merge_sql"]
          n == Cardinality(Commas(margs.key_columns)) + 1
      IN /\ Len(sql.on) = n
         /\ \A i \in 1..n :
               /\ sql.on[i].left = EntryOf(margs.key_columns, i)
               /\ sql.on[i].right = EntryOf(margs.key_columns, i)
         /\ sql.target = <<margs.destination.database_name,
                           margs.destination.table_name>>
         /\ sql.source = margs.view_name
         /\ steps[Len(steps)] = "build" =>
               /\ MergeVersions(history) = {}
               /\ thrown = NoExc
               /\ moutcome = NoOutcome

\* The statement built from ' id , val': two equalities, blanks removed.
C11_Witness ==
    /\ "merge_sql" \in DOMAIN locals
    /\ margs.key_columns = <<" ", "id", " ", ",", " ", "val">>
    /\ locals["merge_sql"].on = <<[left |-> <<"id">>, right |-> <<"id">>],
                                   [left |-> <<"val">>, right |-> <<"val">>]>>
    /\ steps[Len(steps)] = "build"

(***************************************************************************)
(* Specifications.                                                         *)
(***************************************************************************)
\* A session that uses the DataQualityManager.
Init == QInit /\ MStart /\ history = <<"other">>
Next == QNext
Spec == Init /\ [][Next]_vars

\* A run of manage_data_merge against a table that other writers also commit to.
MergeInit ==
    /\ QStart
    /\ debug = FALSE
    /\ MStart
    /\ history \in UNION {[1..n -> {"other"}] : n \in 1..(MaxStartVersion + 1)}
MergeNext == MNext
MergeSpec == MergeInit /\ [][MergeNext]_vars

\* A call in a session whose views an earlier successful call has left.
SessionSpec == SessionInit /\ [][SessionNext]_vars

\* One call of _check_value_ranges on each frame and dictionary.
RangeSpec == RangeInit /\ [][RangeNext]_vars

====
